---- MODULE Spec2Model ----
(***************************************************************************)
(* Model of the chat client's sendMessage (the self-consistency voting     *)
(* round and the single request), of the answer normalizer normalizeAnswer *)
(* and of the serverless proxy handler with handleStandardGroqRequest,     *)
(* handleToolhouseWebSearch and processApiResponse                         *)
(* (src/netlify/functions/api-proxy.js).                                   *)
(*                                                                         *)
(* JavaScript strings that the code takes apart are modelled as sequences  *)
(* of characters, each character a one-character TLA+ string.  The degree  *)
(* sign U+00B0 is written "deg" so that the module stays ASCII.            *)
(* Temperatures and top_p are written in hundredths: 0.2 is 20.            *)
(***************************************************************************)
EXTENDS Integers, Sequences, FiniteSets, TLC

VARIABLES
    pc,                 \* position of sendMessage: "idle", "await" / "awaitSingle" (at the
                        \* fetch), "done" / "doneSingle" / "doneNoModel"
    paths,              \* SELF_CONSISTENCY_PATHS
    i,                  \* loop variable of the path loop
    inFlight,           \* indices of the requests that were sent and have not settled
    requests,           \* log of the path indices a request was sent for (0 for the single request)
    outcomes,           \* log of how each settled request ended
    responses,          \* const responses = []
    answers,            \* const answers = {}: the own properties in creation order
    mostCommonAnswer,   \* let mostCommonAnswer
    highestCount,       \* let highestCount
    bestResponse,       \* let bestResponse
    message,            \* thread.messages[placeholderIndex]
    SELF_CONSISTENCY_ENABLED,
    REASONING_METHOD,
    ENHANCED_REASONING_ENABLED,
    REASONING_ENHANCEMENT,
    MODEL_NAME,
    TEMPERATURE,
    TOP_P,
    PROBLEM_COMPLEXITY, \* the profile analyzeProblemComplexity left
    analysis,           \* log: how the call of analyzeProblemComplexity ended, "notRun" without one
    thread,             \* the messages addMessageToCurrentThread added, in order
    started,            \* log: the settings at the moment sendMessage was called
    basePayload,        \* const basePayload
    payloads,           \* log of the request bodies sent, payloads[k] with requests[k]
    normPc,             \* position of the normalizer harness
    normInput,          \* the string normalizeAnswer is applied to
    normOnce,           \* normalizeAnswer(normInput)
    normTwice,          \* normalizeAnswer(normalizeAnswer(normInput))
    normTail,           \* normalizeAnswer of what follows the leading filler phrase
    normBare,           \* normalizeAnswer of the number of a number written with a unit
    ppc,                \* position of the proxy handler
    event,              \* the event the handler was invoked with
    env,                \* process.env: which keys are set
    retries,            \* let retries of handleStandardGroqRequest
    response,           \* let response: the last response an upstream call returned
    attempts,           \* log of how each attempt of the retry loop ended
    toolCalls,          \* the tool calls of the first completion the loop has not reached
    messageHistory,     \* const messageHistory of handleToolhouseWebSearch
    toolhouse,          \* how the last call to Toolhouse ended
    timers,             \* the timeout timers that are armed: set and neither cleared nor fired
    upstream,           \* log of the requests sent to Groq and to Toolhouse
    result              \* what the invocation of the handler completed with

votingVars == <<pc, paths, i, inFlight, requests, outcomes, responses, answers,
                mostCommonAnswer, highestCount, bestResponse, message>>

settingVars == <<SELF_CONSISTENCY_ENABLED, REASONING_METHOD, ENHANCED_REASONING_ENABLED,
                 REASONING_ENHANCEMENT, MODEL_NAME, TEMPERATURE, TOP_P>>

callVars == <<PROBLEM_COMPLEXITY, analysis, thread, started, basePayload>>

sendVars == <<settingVars, callVars, payloads>>

normVars == <<normPc, normInput, normOnce, normTwice, normTail, normBare>>

proxyVars == <<ppc, event, toolhouse, env, retries, response, attempts, toolCalls, messageHistory,
               timers, upstream, result>>

vars == <<votingVars, sendVars, normVars, proxyVars>>

(***************************************************************************)
(* Bounds of the model.                                                    *)
(***************************************************************************)
MaxPaths == 3

MaxPieces == 3

MaxSendPaths == 2

MaxToolCalls == 2

(***************************************************************************)
(* Characters and the string primitives of JavaScript that the code uses.  *)
(***************************************************************************)
UpperCase == <<"A","B","C","D","E","F","G","H","I","J","K","L","M","N","O","P","Q","R","S","T","U","V","W","X","Y","Z">>

LowerCase == <<"a","b","c","d","e","f","g","h","i","j","k","l","m","n","o","p","q","r","s","t","u","v","w","x","y","z">>

Digits == <<"0","1","2","3","4","5","6","7","8","9">>

Range(f) == { f[k] : k \in DOMAIN f }

\* \w of a regular expression without the u flag: [A-Za-z0-9_]
IsWordChar(c) == c \in Range(UpperCase) \cup Range(LowerCase) \cup Range(Digits) \cup {"_"}

\* \s of a regular expression, and the characters String.prototype.trim removes
WhiteSpace == {" ", "\t", "\n"}

CharLower(c) ==
    IF c \in Range(UpperCase)
    THEN LowerCase[CHOOSE k \in DOMAIN UpperCase : UpperCase[k] = c]
    ELSE c

\* String.prototype.toLowerCase
ToLowerCase(s) == [k \in 1..Len(s) |-> CharLower(s[k])]

\* String.prototype.trim
Trim(s) ==
    LET keep == { k \in 1..Len(s) : s[k] \notin WhiteSpace }
    IN  IF keep = {} THEN <<>>
        ELSE LET lo == CHOOSE k \in keep : \A j \in keep : k <= j
                 hi == CHOOSE k \in keep : \A j \in keep : k >= j
             IN  SubSeq(s, lo, hi)

\* String.prototype.includes
Includes(s, sub) ==
    \E k \in 0..(Len(s) - Len(sub)) : SubSeq(s, k + 1, k + Len(sub)) = sub

\* String.prototype.indexOf, 1-based, 0 when absent
IndexOf(s, sub) ==
    IF Includes(s, sub)
    THEN CHOOSE k \in 1..(Len(s) - Len(sub) + 1) :
            /\ SubSeq(s, k, k + Len(sub) - 1) = sub
            /\ \A j \in 1..(k - 1) : SubSeq(s, j, j + Len(sub) - 1) # sub
    ELSE 0

\* a pattern of literal characters matched at position pos under the i flag
MatchAtCI(s, pos, pat) ==
    /\ pos >= 1
    /\ pos + Len(pat) - 1 <= Len(s)
    /\ \A j \in 1..Len(pat) : CharLower(s[pos + j - 1]) = CharLower(pat[j])

\* \b at the gap before position pos: exactly one neighbour is a word character
WordAt(s, k) == k \in 1..Len(s) /\ IsWordChar(s[k])

WordBoundary(s, pos) == WordAt(s, pos - 1) # WordAt(s, pos)

(***************************************************************************)
(* normalizeAnswer, api-proxy.js lines 653-673.                            *)
(***************************************************************************)
\* the alternatives of the prefix expression of line 655
FillerPhrases ==
    { <<"t","h","e"," ","a","n","s","w","e","r"," ","i","s">>,
      <<"t","h","e","r","e","f","o","r","e">>,
      <<"t","h","u","s">>,
      <<"s","o">>,
      <<"h","e","n","c","e">>,
      <<"t","h","e"," ","r","e","s","u","l","t"," ","i","s">>,
      <<"w","e"," ","g","e","t">>,
      <<"w","e"," ","f","i","n","d"," ","t","h","a","t">>,
      <<"t","h","e"," ","f","i","n","a","l"," ","a","n","s","w","e","r"," ","i","s">>,
      <<"t","h","e"," ","v","a","l","u","e"," ","i","s">>,
      <<"t","h","e"," ","s","o","l","u","t","i","o","n"," ","i","s">> }

\* what the prefix expression consumes at the start of s, 0 when it does not
\* match:  ^(phrase):\s*  under the i flag
PrefixMatchLen(s) ==
    IF \E p \in FillerPhrases : MatchAtCI(s, 1, p \o <<":">>)
    THEN LET p == CHOOSE q \in FillerPhrases : MatchAtCI(s, 1, q \o <<":">>)
             ws == { k \in (Len(p) + 2)..Len(s) :
                        \A j \in (Len(p) + 2)..k : s[j] \in WhiteSpace }
         IN  Len(p) + 1 + Cardinality(ws)
    ELSE 0

\* answer.replace(/^(...):\s*/i, "")
StripPrefix(s) == SubSeq(s, PrefixMatchLen(s) + 1, Len(s))

\* the alternatives of unitRegex of line 658, in source order
UnitTokens ==
    << <<"d","o","l","l","a","r","s">>,
       <<"i","n","c","h","e","s">>,
       <<"f","e","e","t">>,
       <<"m","e","t","e","r","s">>,
       <<"p","o","u","n","d","s">>,
       <<"k","g">>,
       <<"m","i","l","e","s">>,
       <<"k","m">>,
       <<"y","e","a","r","s">>,
       <<"d","a","y","s">>,
       <<"h","o","u","r","s">>,
       <<"m","i","n","u","t","e","s">>,
       <<"s","e","c","o","n","d","s">>,
       <<"p","e","r","c","e","n","t">>,
       <<"d","e","g","r","e","e","s">>,
       <<"w","a","t","t","s">>,
       <<"v","o","l","t","s">>,
       <<"a","m","p","s">>,
       <<"$">>,
       <<"%">>,
       <<"deg","C">>,
       <<"deg","F">> >>

\* unitRegex written without its leading \b: (alternatives)\b
UnitMatchLenNoLeadingBoundary(s, pos) ==
    LET fits == { u \in DOMAIN UnitTokens :
                    /\ MatchAtCI(s, pos, UnitTokens[u])
                    /\ WordBoundary(s, pos + Len(UnitTokens[u])) }
    IN  IF fits = {} THEN 0
        ELSE Len(UnitTokens[CHOOSE u \in fits : \A v \in fits : u <= v])

\* the length of the match of unitRegex that starts at pos, 0 when none does:
\* \b(alternatives)\b under the i flag, the first alternative that fits
UnitMatchLen(s, pos) ==
    LET fits == { u \in DOMAIN UnitTokens :
                    /\ WordBoundary(s, pos)
                    /\ MatchAtCI(s, pos, UnitTokens[u])
                    /\ WordBoundary(s, pos + Len(UnitTokens[u])) }
    IN  IF fits = {} THEN 0
        ELSE Len(UnitTokens[CHOOSE u \in fits : \A v \in fits : u <= v])

\* normalized.replace(unitRegex, ""): every match, scanning left to right
RECURSIVE ReplaceUnits(_, _)
ReplaceUnits(s, pos) ==
    IF pos > Len(s) THEN <<>>
    ELSE LET n == UnitMatchLen(s, pos)
         IN  IF n > 0 THEN ReplaceUnits(s, pos + n)
             ELSE <<s[pos]>> \o ReplaceUnits(s, pos + 1)

StripUnits(s) == ReplaceUnits(s, 1)

\* the character class [.,;:!\s] of line 667
PunctClass == {".", ",", ";", ":", "!"} \cup WhiteSpace

\* normalized.replace(/[.,;:!\s]+/g, " "): every maximal run becomes one space
RECURSIVE ReplacePunct(_, _)
ReplacePunct(s, pos) ==
    IF pos > Len(s) THEN <<>>
    ELSE IF s[pos] \in PunctClass
         THEN IF pos > 1 /\ s[pos - 1] \in PunctClass
              THEN ReplacePunct(s, pos + 1)
              ELSE <<" ">> \o ReplacePunct(s, pos + 1)
         ELSE <<s[pos]>> \o ReplacePunct(s, pos + 1)

CollapsePunct(s) == ReplacePunct(s, 1)

normalizeAnswer(answer) ==
    ToLowerCase(Trim(CollapsePunct(StripUnits(StripPrefix(answer)))))

(***************************************************************************)
(* Harness for normalizeAnswer: the input is any concatenation of at most  *)
(* MaxPieces pieces, and the steps apply the function as the code would.   *)
(***************************************************************************)
NormPieces ==
    { <<"T","h","e"," ","a","n","s","w","e","r"," ","i","s">>,
      <<"s","o">>,
      <<":">>,
      <<" ">>,
      <<"8">>,
      <<"k">>,
      <<"g">>,
      <<"K","g">>,
      <<"$">>,
      <<"deg","C">> }

RECURSIVE Flatten(_)
Flatten(ps) == IF ps = <<>> THEN <<>> ELSE Head(ps) \o Flatten(Tail(ps))

NormInputs ==
    { Flatten(ps) : ps \in UNION { [1..n -> NormPieces] : n \in 0..MaxPieces } }

\* the input starts, in any letter case, with a filler phrase, and a space and
\* an answer that is not blank follow it
LeadingFiller(s) ==
    { p \in FillerPhrases :
        /\ MatchAtCI(s, 1, p \o <<" ">>)
        /\ Trim(SubSeq(s, Len(p) + 1, Len(s))) # <<>> }

AfterFiller(s) ==
    LET p == CHOOSE q \in LeadingFiller(s) : TRUE
    IN  SubSeq(s, Len(p) + 1, Len(s))

\* the number that the answers with a unit are written around
BareNumber == <<"8">>

\* the number written with one unit token: the token before it, after it, or
\* after it and a space
UnitForms ==
    UNION { { u \o BareNumber, BareNumber \o u, BareNumber \o <<" ">> \o u } :
                u \in Range(UnitTokens) }

\* the input is, in any letter case, the number written with a unit token
WrittenWithUnit(s) == ToLowerCase(s) \in { ToLowerCase(f) : f \in UnitForms }

NormIdle ==
    /\ normPc = "off"
    /\ normInput = <<>>
    /\ normOnce = <<>>
    /\ normTwice = <<>>
    /\ normTail = <<>>
    /\ normBare = <<>>

InitNorm ==
    /\ normPc = "input"
    /\ normInput \in NormInputs
    /\ normOnce = <<>>
    /\ normTwice = <<>>
    /\ normTail = <<>>
    /\ normBare = <<>>

\* const normalizedAnswer = normalizeAnswer(finalAnswer)
NormalizeOnce ==
    /\ normPc = "input"
    /\ normOnce' = normalizeAnswer(normInput)
    /\ normPc' = "once"
    /\ UNCHANGED <<normInput, normTwice, normTail, normBare>>
    /\ UNCHANGED <<votingVars, sendVars, proxyVars>>

\* the function applied to its own result
NormalizeTwice ==
    /\ normPc = "once"
    /\ normTwice' = normalizeAnswer(normOnce)
    /\ normPc' = "twice"
    /\ UNCHANGED <<normInput, normOnce, normTail, normBare>>
    /\ UNCHANGED <<votingVars, sendVars, proxyVars>>

\* the function applied to the answer without its leading filler phrase
NormalizeTail ==
    /\ normPc = "twice"
    /\ LeadingFiller(normInput) # {}
    /\ normTail' = normalizeAnswer(AfterFiller(normInput))
    /\ normPc' = "tail"
    /\ UNCHANGED <<normInput, normOnce, normTwice, normBare>>
    /\ UNCHANGED <<votingVars, sendVars, proxyVars>>

\* the function applied to the number alone of a number written with a unit
NormalizeBare ==
    /\ normPc = "twice"
    /\ WrittenWithUnit(normInput)
    /\ normBare' = normalizeAnswer(BareNumber)
    /\ normPc' = "bare"
    /\ UNCHANGED <<normInput, normOnce, normTwice, normTail>>
    /\ UNCHANGED <<votingVars, sendVars, proxyVars>>

(***************************************************************************)
(* processBotMessage for the "cod" method.  Its source is not among the    *)
(* files of src/; it is modelled from section 4.1 of the specification:    *)
(* split at the first "####", no marker means the whole text is the        *)
(* answer, empty text means no thinking and no answer.                     *)
(***************************************************************************)
Separator == <<"#","#","#","#">>

processBotMessage(text) ==
    LET at == IndexOf(text, Separator)
    IN  IF text = <<>>
        THEN [answer |-> <<>>, hasThinking |-> FALSE, thinking |-> <<>>, hasAnswer |-> FALSE]
        ELSE IF at = 0
        THEN [answer |-> text, hasThinking |-> FALSE, thinking |-> <<>>, hasAnswer |-> TRUE]
        ELSE [answer |-> Trim(SubSeq(text, at + Len(Separator), Len(text))),
              hasThinking |-> TRUE,
              thinking |-> SubSeq(text, 1, at - 1),
              hasAnswer |-> TRUE]

\* const finalAnswer = processed.answer ? processed.answer.trim() : ""
FinalAnswer(text) ==
    LET processed == processBotMessage(text)
    IN  IF processed.hasAnswer /\ processed.answer # <<>>
        THEN Trim(processed.answer)
        ELSE <<>>

(***************************************************************************)
(* The tally object `answers`.  A JavaScript object is modelled by the     *)
(* sequence of its own properties in creation order; Object.entries lists  *)
(* the array-index keys first, in ascending numeric order, and the other   *)
(* string keys after them, in creation order.                              *)
(***************************************************************************)
HasKey(obj, key) == \E k \in DOMAIN obj : obj[k].key = key

\* answers[normalizedAnswer] = (answers[normalizedAnswer] || 0) + 1
CountVote(obj, key) ==
    IF HasKey(obj, key)
    THEN [k \in DOMAIN obj |->
            IF obj[k].key = key THEN [obj[k] EXCEPT !.count = @ + 1] ELSE obj[k]]
    ELSE Append(obj, [key |-> key, count |-> 1])

DigitValue(c) == (CHOOSE k \in DOMAIN Digits : Digits[k] = c) - 1

\* the order of two canonical decimal numerals: the shorter is the smaller,
\* and of two of the same length the one smaller at the first differing digit
NumeralLeq(a, b) ==
    \/ Len(a) < Len(b)
    \/ /\ Len(a) = Len(b)
       /\ \/ a = b
          \/ \E k \in DOMAIN a :
                /\ \A j \in 1..(k - 1) : a[j] = b[j]
                /\ DigitValue(a[k]) < DigitValue(b[k])

\* the largest array index, 2^32 - 2
MaxArrayIndex == <<"4","2","9","4","9","6","7","2","9","4">>

\* a key that is the canonical decimal form of an array index
IsArrayIndex(key) ==
    /\ Len(key) >= 1
    /\ \A k \in DOMAIN key : key[k] \in Range(Digits)
    /\ (Len(key) = 1 \/ key[1] # "0")
    /\ NumeralLeq(key, MaxArrayIndex)

RECURSIVE Ascending(_, _)
Ascending(obj, left) ==
    IF left = {} THEN <<>>
    ELSE LET least == CHOOSE k \in left :
                        \A j \in left : NumeralLeq(obj[k].key, obj[j].key)
         IN  <<obj[least]>> \o Ascending(obj, left \ {least})

ObjectEntries(obj) ==
    LET IsIndexEntry(e) == IsArrayIndex(e.key)
        IsNamedEntry(e) == ~IsArrayIndex(e.key)
    IN  Ascending(obj, { k \in DOMAIN obj : IsIndexEntry(obj[k]) })
            \o SelectSeq(obj, IsNamedEntry)

\* the loop written without its comparison: the first entry is taken
MostCommonFirstEntry(entries, k, best) ==
    IF entries = <<>> THEN best ELSE entries[1]

\* lines 802-810: the first entry whose count exceeds every count before it
RECURSIVE MostCommonFrom(_, _, _)
MostCommonFrom(entries, k, best) ==
    IF k > Len(entries) THEN best
    ELSE IF entries[k].count > best.count
         THEN MostCommonFrom(entries, k + 1, entries[k])
         ELSE MostCommonFrom(entries, k + 1, best)

MostCommon(obj) == MostCommonFrom(ObjectEntries(obj), 1, [key |-> <<>>, count |-> 0])

\* lines 816-827: the first response that includes the key, else the first response
PickBestResponse(resp, key) ==
    LET hits == { k \in DOMAIN resp : Includes(resp[k], key) }
        found == IF hits = {} THEN <<>>
                 ELSE resp[CHOOSE k \in hits : \A j \in hits : k <= j]
    IN  IF found = <<>> /\ Len(resp) > 0 THEN resp[1] ELSE found

\* Math.round((count / total) * 100)
RoundedPercentage(count, total) == (200 * count + total) \div (2 * total)

(***************************************************************************)
(* The messages sendMessage stores at thread.messages[placeholderIndex].   *)
(***************************************************************************)
ProgressMessage(complete, total) ==
    [total |-> total, complete |-> complete, kind |-> "progress", isPlaceholder |-> TRUE]

\* lines 829-875
WinnerMessage(best, resp, count, total) ==
    LET processed == processBotMessage(best)
        info == [paths |-> total, agreed |-> count,
                 percent |-> RoundedPercentage(count, total)]
    IN  [answer |-> IF processed.hasAnswer /\ processed.answer # <<>>
                    THEN processed.answer ELSE best,
         hasThinking |-> processed.hasThinking,
         thinking |-> processed.thinking,
         kind |-> "winner",
         isPlaceholder |-> FALSE,
         content |-> best,
         summary |-> info,
         selfConsistencyResults |->
            [paths |-> total,
             agreement |-> <<count * 100, total>>,
             agreementCount |-> count,
             allResponses |-> resp]]

\* lines 877-888
NoValidMessage ==
    [answer |-> "null",
     thinking |-> "null",
     kind |-> "noValid",
     isPlaceholder |-> FALSE,
     content |-> "No valid responses received. Check model name and API key.",
     wordCount |-> 0,
     thinkingWordCount |-> 0,
     answerWordCount |-> 0]

\* lines 893-904
SelfConsistencyErrorMessage ==
    [answer |-> "null",
     thinking |-> "null",
     kind |-> "scError",
     isPlaceholder |-> FALSE,
     content |-> "Error generating multiple reasoning paths: ",
     wordCount |-> 0,
     thinkingWordCount |-> 0,
     answerWordCount |-> 0]

(***************************************************************************)
(* sendMessage, lines 676-1028.  A step is what the function runs between  *)
(* two awaits: it starts when sendMessage is called or when the pending    *)
(* fetch settles, and it ends at the next await or at the end of the       *)
(* function.  The settings are globals: the code reads them when a         *)
(* statement that names them runs, and the handlers of the settings panel  *)
(* can change them while sendMessage waits for a fetch.                    *)
(***************************************************************************)
\* what data.choices[0].message.content can be when it is a non-empty string
Replies ==
    { <<"8">>,
      <<"9">>,
      <<"8"," ","#","#","#","#"," ","9">>,
      <<" ">>,
      <<"Y","e","s">>,
      <<"s","o",":"," ","8">>,
      <<"x"," ","#","#","#","#">> }

\* the status of a response whose ok is false
ErrorStatuses == {500}

\* the message of the error a rejected fetch carries
FetchErrorMessages == {"Failed to fetch", "Load failed"}

\* the error messages for which error.message.includes("Failed to fetch") holds
FailedToFetchMessages == {"Failed to fetch"}

\* line 949: `HTTP error! Status: ${response.status}`
HttpErrorText(status) == "HTTP error! Status: " \o ToString(status)

\* the message of the error a rejected response.json() carries
JsonErrorText == "Unexpected token < in JSON at position 0"

\* the values of the sampling settings
DefaultSampling == [TEMPERATURE |-> 70, TOP_P |-> 90]

Samplings == { DefaultSampling, [TEMPERATURE |-> 100, TOP_P |-> 50] }

ReasoningMethods == {"cod", "cot"}

\* ENHANCED_REASONING_ENABLED and REASONING_ENHANCEMENT
EnhancementSettings == { <<FALSE, "adaptive">>, <<TRUE, "adaptive">>, <<TRUE, "standard">> }

\* MODEL_NAME: not set, or set
ModelNames == {"", "llama-3.3-70b-versatile"}

\* the default profile of section 4.3
DefaultProfile ==
    [hasMath |-> FALSE, hasLogic |-> FALSE, multiStep |-> FALSE, complexity |-> "normal"]

\* analyzeProblemComplexity(message).  Its source is not among the files of
\* src/; it is modelled from section 4.3 of the specification: it yields a
\* profile, and the default profile when it fails to classify.
analyzeProblemComplexity ==
    { [analysis |-> "classified",
       profile |-> [hasMath |-> TRUE, hasLogic |-> TRUE, multiStep |-> FALSE,
                    complexity |-> "complex"]],
      [analysis |-> "failed", profile |-> DefaultProfile] }

\* lines 677-680: the classifier runs under the adaptive enhancement only
Classification ==
    IF ENHANCED_REASONING_ENABLED /\ REASONING_ENHANCEMENT = "adaptive"
    THEN analyzeProblemComplexity
    ELSE { [analysis |-> "notRun", profile |-> PROBLEM_COMPLEXITY] }

UserMessage == [isPlaceholder |-> FALSE, sender |-> "user"]

\* the user message is added only when the classifier did not fail
UserThreadUnlessFailed(r) == IF r.analysis = "failed" THEN <<>> ELSE <<UserMessage>>

\* lines 682-686: addMessageToCurrentThread(message, "user", false, filesToSend)
UserThread(r) == <<UserMessage>>

\* lines 697-698
ModelNameErrorMessage ==
    [isPlaceholder |-> FALSE,
     content |-> "Error: Please set the Model Name in the Settings.",
     sender |-> "bot"]

\* line 708
GeneratingMessage(n) ==
    [paths |-> n, kind |-> "generating", isPlaceholder |-> TRUE, sender |-> "bot"]

\* line 910
TypingMessage ==
    [kind |-> "typing", isPlaceholder |-> TRUE, content |-> "Bot is typing...",
     sender |-> "bot"]

\* lines 716-725; max_tokens, top_k, the penalties and messages are read as
\* model and top_p are
BasePayload ==
    [model |-> MODEL_NAME, top_p |-> TOP_P, temperature |-> TEMPERATURE + 20]

\* the payload of a path with the temperature computed from the setting as
\* it is when the path is dispatched
PathPayloadFromSetting(base, k) ==
    [base EXCEPT !.temperature = TEMPERATURE + 20 + (k * 5)]

\* lines 747-750
PathPayload(base, k) ==
    [base EXCEPT !.temperature = @ + (k * 5)]

\* lines 918-927
SinglePayload ==
    [model |-> MODEL_NAME, top_p |-> TOP_P, temperature |-> TEMPERATURE]

\* lines 957-987
SingleReplyMessage(trimmedReply) ==
    LET processed == processBotMessage(trimmedReply)
    IN  [answer |-> processed.answer,
         hasThinking |-> processed.hasThinking,
         thinking |-> processed.thinking,
         hasAnswer |-> processed.hasAnswer,
         kind |-> "reply",
         isPlaceholder |-> FALSE,
         content |-> trimmedReply]

\* lines 988-1001
SingleNoValidMessage ==
    [answer |-> "null",
     thinking |-> "null",
     kind |-> "noValidSingle",
     isPlaceholder |-> FALSE,
     content |-> "No valid response received. Check model name and API key.",
     wordCount |-> 0,
     thinkingWordCount |-> 0,
     answerWordCount |-> 0]

\* lines 1006-1025: the content is the heading, error.message and, for a
\* failed fetch, the list of possible solutions
ApiErrorMessage(errorMessage) ==
    [answer |-> "null",
     thinking |-> "null",
     kind |-> "apiError",
     isPlaceholder |-> FALSE,
     content |-> <<"Error communicating with API: ", errorMessage>>
                    \o (IF errorMessage \in FailedToFetchMessages
                        THEN <<"Possible solutions">> ELSE <<>>),
     wordCount |-> 0,
     thinkingWordCount |-> 0,
     answerWordCount |-> 0]

VotingIdle(n) ==
    /\ pc = "idle"
    /\ paths = n
    /\ i = 0
    /\ inFlight = {}
    /\ requests = <<>>
    /\ outcomes = <<>>
    /\ responses = <<>>
    /\ answers = <<>>
    /\ mostCommonAnswer = <<>>
    /\ highestCount = 0
    /\ bestResponse = <<>>
    /\ message = [kind |-> "none"]

SendIdle(enabled, method, enhanced, enhancement, model, sampling) ==
    /\ SELF_CONSISTENCY_ENABLED = enabled
    /\ REASONING_METHOD = method
    /\ ENHANCED_REASONING_ENABLED = enhanced
    /\ REASONING_ENHANCEMENT = enhancement
    /\ MODEL_NAME = model
    /\ TEMPERATURE = sampling.TEMPERATURE
    /\ TOP_P = sampling.TOP_P
    /\ PROBLEM_COMPLEXITY = DefaultProfile
    /\ analysis = "notRun"
    /\ thread = <<>>
    /\ started = [kind |-> "none"]
    /\ basePayload = [kind |-> "none"]
    /\ payloads = <<>>

\* lines 676-680: the settings as the call finds them, and the classifier
SendPrelude(r) ==
    /\ analysis' = r.analysis
    /\ PROBLEM_COMPLEXITY' = r.profile
    /\ started' = [paths |-> paths, MODEL_NAME |-> MODEL_NAME,
                   TEMPERATURE |-> TEMPERATURE, TOP_P |-> TOP_P]
    /\ UNCHANGED settingVars

\* lines 696-701: without a model name the error message is added and the
\* function returns
SendWithoutModel ==
    /\ pc = "idle"
    /\ MODEL_NAME = ""
    /\ \E r \in Classification :
         /\ SendPrelude(r)
         /\ thread' = UserThread(r) \o <<ModelNameErrorMessage>>
    /\ pc' = "doneNoModel"
    /\ UNCHANGED <<paths, i, inFlight, requests, outcomes, responses, answers,
                   mostCommonAnswer, highestCount, bestResponse, message>>
    /\ UNCHANGED <<basePayload, payloads>>
    /\ UNCHANGED <<normVars, proxyVars>>

\* the end of the round written without the test of line 829, if (bestResponse)
ResolveRoundUnguarded(k, resp, ans, pending) ==
    LET win == MostCommon(ans)
        best == PickBestResponse(resp, win.key)
    IN  /\ pc' = "done"
        /\ i' = k
        /\ inFlight' = pending
        /\ requests' = requests
        /\ payloads' = payloads
        /\ responses' = resp
        /\ answers' = ans
        /\ mostCommonAnswer' = win.key
        /\ highestCount' = win.count
        /\ bestResponse' = best
        /\ message' = WinnerMessage(best, resp, win.count, paths)

\* lines 801-889: the tally is read, the response to show is picked, the
\* placeholder is replaced
ResolveRound(k, resp, ans, pending) ==
    LET win == MostCommon(ans)
        best == PickBestResponse(resp, win.key)
    IN  /\ pc' = "done"
        /\ i' = k
        /\ inFlight' = pending
        /\ requests' = requests
        /\ payloads' = payloads
        /\ responses' = resp
        /\ answers' = ans
        /\ mostCommonAnswer' = win.key
        /\ highestCount' = win.count
        /\ bestResponse' = best
        /\ message' = IF best # <<>>
                      THEN WinnerMessage(best, resp, win.count, paths)
                      ELSE NoValidMessage

\* the loop written without await: the requests of all remaining iterations
\* are sent at once
DispatchAllPaths(k, resp, ans, pending) ==
    /\ pc' = "await"
    /\ i' = k
    /\ inFlight' = pending \cup k..(paths - 1)
    /\ requests' = requests \o [j \in 1..(paths - k) |-> k + j - 1]
    /\ payloads' = payloads \o [j \in 1..(paths - k) |-> PathPayload(basePayload', k + j - 1)]
    /\ responses' = resp
    /\ answers' = ans
    /\ message' = ProgressMessage(k, paths)
    /\ UNCHANGED <<mostCommonAnswer, highestCount, bestResponse>>

\* lines 741-768: iteration k shows the progress and sends its request, and
\* the function waits for the fetch to settle
DispatchPath(k, resp, ans, pending) ==
    /\ pc' = "await"
    /\ i' = k
    /\ inFlight' = pending \cup {k}
    /\ requests' = Append(requests, k)
    /\ payloads' = Append(payloads, PathPayload(basePayload', k))
    /\ responses' = resp
    /\ answers' = ans
    /\ message' = ProgressMessage(k, paths)
    /\ UNCHANGED <<mostCommonAnswer, highestCount, bestResponse>>

\* the for statement of line 741, entered with the loop variable at k
ContinueLoop(k, resp, ans, pending) ==
    IF k < paths
    THEN DispatchPath(k, resp, ans, pending)
    ELSE ResolveRound(k, resp, ans, pending)

\* lines 676-768: the call with voting active, up to the fetch of the first
\* iteration
StartRound ==
    /\ pc = "idle"
    /\ MODEL_NAME # ""
    /\ SELF_CONSISTENCY_ENABLED /\ REASONING_METHOD = "cod"
    /\ \E r \in Classification :
         /\ SendPrelude(r)
         /\ thread' = UserThread(r) \o <<GeneratingMessage(paths)>>
    /\ basePayload' = BasePayload
    /\ outcomes' = outcomes
    /\ ContinueLoop(0, <<>>, <<>>, {})
    /\ UNCHANGED paths
    /\ UNCHANGED <<normVars, proxyVars>>

\* the loop body written without its try/catch: what the path throws reaches
\* the catch of line 890
PathThrowsUncaught(kind) ==
    /\ outcomes' = Append(outcomes, [kind |-> kind])
    /\ pc' = "done"
    /\ inFlight' = inFlight \ {i}
    /\ message' = SelfConsistencyErrorMessage
    /\ UNCHANGED <<paths, i, requests, responses, answers,
                   mostCommonAnswer, highestCount, bestResponse>>
    /\ UNCHANGED <<settingVars, callVars, payloads>>

\* lines 795-798: what the path threw is logged, the loop goes on
PathThrows(kind) ==
    /\ outcomes' = Append(outcomes, [kind |-> kind])
    /\ UNCHANGED <<settingVars, callVars>>
    /\ ContinueLoop(i + 1, responses, answers, inFlight \ {i})
    /\ UNCHANGED paths

\* line 762: the promise of fetch rejects
FetchRejects ==
    /\ pc = "await"
    /\ i \in inFlight
    /\ PathThrows("networkError")
    /\ UNCHANGED <<normVars, proxyVars>>

\* lines 770-772: the response is not ok
HttpError ==
    /\ pc = "await"
    /\ i \in inFlight
    /\ \E status \in ErrorStatuses : PathThrows("httpError")
    /\ UNCHANGED <<normVars, proxyVars>>

\* line 774: response.json() rejects
BodyNotJson ==
    /\ pc = "await"
    /\ i \in inFlight
    /\ PathThrows("malformedJson")
    /\ UNCHANGED <<normVars, proxyVars>>

\* lines 775-780: the body has no choices[0].message.content
ReplyWithoutContent ==
    /\ pc = "await"
    /\ i \in inFlight
    /\ outcomes' = Append(outcomes, [kind |-> "noContent"])
    /\ UNCHANGED <<settingVars, callVars>>
    /\ ContinueLoop(i + 1, responses, answers, inFlight \ {i})
    /\ UNCHANGED paths
    /\ UNCHANGED <<normVars, proxyVars>>

\* the answer counted under its own text
TallyRawAnswer(obj, finalAnswer) ==
    IF finalAnswer # <<>> THEN CountVote(obj, finalAnswer) ELSE obj

\* lines 790-793: an answer that is not empty is counted under its
\* normalized form
TallyAnswer(obj, finalAnswer) ==
    IF finalAnswer # <<>> THEN CountVote(obj, normalizeAnswer(finalAnswer)) ELSE obj

\* lines 780-794: the reply is collected and its answer is counted
ReplyWithContent ==
    /\ pc = "await"
    /\ i \in inFlight
    /\ UNCHANGED <<settingVars, callVars>>
    /\ \E botReply \in Replies :
         LET trimmedReply == Trim(botReply)
             finalAnswer == FinalAnswer(trimmedReply)
         IN  /\ outcomes' = Append(outcomes, [kind |-> "content", reply |-> botReply])
             /\ ContinueLoop(i + 1, Append(responses, trimmedReply),
                             TallyAnswer(answers, finalAnswer), inFlight \ {i})
    /\ UNCHANGED paths
    /\ UNCHANGED <<normVars, proxyVars>>

\* lines 608-611: the handler of the path slider, run while a fetch of the
\* round is pending
PathSliderInput ==
    /\ pc = "await"
    /\ \E n \in 1..MaxPaths : n # paths /\ paths' = n
    /\ UNCHANGED <<pc, i, inFlight, requests, outcomes, responses, answers,
                   mostCommonAnswer, highestCount, bestResponse, message>>
    /\ UNCHANGED <<sendVars, normVars, proxyVars>>

\* the sampling settings are changed while a fetch is pending.  The code
\* that writes TEMPERATURE and TOP_P is not among the files of src/; the
\* settings are modelled from sections 3 and 4.5 of the specification.
ChangeSampling ==
    /\ pc \in {"await", "awaitSingle"}
    /\ \E s \in Samplings :
         /\ s.TEMPERATURE # TEMPERATURE
         /\ TEMPERATURE' = s.TEMPERATURE
         /\ TOP_P' = s.TOP_P
    /\ UNCHANGED <<SELF_CONSISTENCY_ENABLED, REASONING_METHOD, ENHANCED_REASONING_ENABLED,
                   REASONING_ENHANCEMENT, MODEL_NAME>>
    /\ UNCHANGED <<votingVars, callVars, payloads, normVars, proxyVars>>

\* lines 908-946: the call without voting, up to its fetch
StartSingle ==
    /\ pc = "idle"
    /\ MODEL_NAME # ""
    /\ ~(SELF_CONSISTENCY_ENABLED /\ REASONING_METHOD = "cod")
    /\ \E r \in Classification :
         /\ SendPrelude(r)
         /\ thread' = UserThread(r) \o <<TypingMessage>>
    /\ message' = TypingMessage
    /\ payloads' = Append(payloads, SinglePayload)
    /\ requests' = Append(requests, 0)
    /\ inFlight' = {0}
    /\ pc' = "awaitSingle"
    /\ UNCHANGED <<paths, i, outcomes, responses, answers,
                   mostCommonAnswer, highestCount, bestResponse, basePayload>>
    /\ UNCHANGED <<normVars, proxyVars>>

\* the pending fetch of the single request settles and msg replaces the
\* placeholder
SingleSettles(outcome, msg) ==
    /\ pc = "awaitSingle"
    /\ outcomes' = Append(outcomes, outcome)
    /\ inFlight' = {}
    /\ message' = msg
    /\ pc' = "doneSingle"
    /\ UNCHANGED <<paths, i, requests, responses, answers,
                   mostCommonAnswer, highestCount, bestResponse>>
    /\ UNCHANGED <<sendVars, normVars, proxyVars>>

\* the try written without its catch: the placeholder stays
SingleThrowsUncaught(kind, errorMessage) ==
    SingleSettles([kind |-> kind], message)

\* lines 1002-1025: the catch replaces the placeholder
SingleThrows(kind, errorMessage) ==
    SingleSettles([kind |-> kind], ApiErrorMessage(errorMessage))

\* line 940: the promise of fetch rejects
SingleFetchRejects ==
    \E errorMessage \in FetchErrorMessages : SingleThrows("networkError", errorMessage)

\* lines 948-950: the response is not ok
SingleHttpError ==
    \E status \in ErrorStatuses : SingleThrows("httpError", HttpErrorText(status))

\* line 952: response.json() rejects
SingleBodyNotJson == SingleThrows("malformedJson", JsonErrorText)

\* lines 953-957, 988-1001: the body has no choices[0].message.content
SingleReplyWithoutContent ==
    SingleSettles([kind |-> "noContent"], SingleNoValidMessage)

\* lines 953-987
SingleReplyWithContent ==
    \E botReply \in Replies :
        SingleSettles([kind |-> "content", reply |-> botReply],
                      SingleReplyMessage(Trim(botReply)))

(***************************************************************************)
(* The proxy: exports.handler (lines 5-202), handleStandardGroqRequest     *)
(* (207-260), handleToolhouseWebSearch (265-463) and processApiResponse    *)
(* (468-527).  As for sendMessage, a step is what runs between two awaits. *)
(***************************************************************************)
Methods == {"OPTIONS", "GET", "POST"}

\* event.body: absent, a text that is not JSON, the JSON text null, or the
\* JSON text of an object, of which the fields the handler reads are kept
\* (enableWebSearch: absent, false, true, or a value that is truthy and not
\* true, such as "true" or 1)
Bodies ==
    { [kind |-> "absent"], [kind |-> "invalidJson"], [kind |-> "null"] }
        \cup { [kind |-> "object", model |-> m, messages |-> ms, enableWebSearch |-> w] :
                    m \in BOOLEAN,
                    ms \in {"missing", "notArray", "empty", "present"},
                    w \in {"absent", "false", "true", "truthy"} }

\* process.env: whether each key is set
Environments ==
    [QROQ_API_KEY : BOOLEAN, GROQ_API_KEY : BOOLEAN, API_KEY : BOOLEAN,
     TOOLHOUSE_API_KEY : BOOLEAN]

\* the statuses an upstream response can have
UpstreamStatuses == {200, 500, 502}

\* response.ok
Ok(status) == status \in 200..299

\* the flag read with a test for truthiness
EnableWebSearchTruthy(b) == b.enableWebSearch \in {"true", "truthy"}

\* line 136: requestBody.enableWebSearch === true
EnableWebSearch(b) == b.enableWebSearch = "true"

\* the keys tried in the opposite order
GroqApiKeyLastFirst(e) ==
    IF e.API_KEY THEN "API_KEY"
    ELSE IF e.GROQ_API_KEY THEN "GROQ_API_KEY"
    ELSE IF e.QROQ_API_KEY THEN "QROQ_API_KEY"
    ELSE ""

\* line 106: the name of the first key that is set, "" when none is
GroqApiKey(e) ==
    IF e.QROQ_API_KEY THEN "QROQ_API_KEY"
    ELSE IF e.GROQ_API_KEY THEN "GROQ_API_KEY"
    ELSE IF e.API_KEY THEN "API_KEY"
    ELSE ""

\* what an invocation completes with
Returned(statusCode, text) ==
    [text |-> text, kind |-> "response", statusCode |-> statusCode]

Thrown(name) == [kind |-> "threw", error |-> name]

\* lines 219-235: JSON.stringify(requestBody) goes to the Groq endpoint
StandardRequest ==
    [enableWebSearch |-> event.body.enableWebSearch, to |-> "groq",
     bearer |-> GroqApiKey(env), tools |-> FALSE]

\* lines 274-280
ToolsRequest == [to |-> "toolhouse/tools", bearer |-> "TOOLHOUSE_API_KEY"]

\* lines 305-323: the body with the tool and without the flag
FirstRequest ==
    [enableWebSearch |-> "absent", to |-> "groq", bearer |-> GroqApiKey(env),
     tools |-> TRUE]

\* lines 332-347: the tool calls a completion can carry, each with its id;
\* a call is for web_search or for something else (or has no function)
ToolCallNames == {"web_search", "other"}

ToolCallLists ==
    UNION { { [at \in 1..n |-> [name |-> names[at], id |-> at]] :
                names \in [1..n -> ToolCallNames] } : n \in 1..MaxToolCalls }

\* the loop taking every call for a web_search call
ToExecuteEvery(calls) == calls

\* line 348: the calls the loop passes over before its next execution
RECURSIVE ToExecute(_)
ToExecute(calls) ==
    IF calls = <<>> \/ Head(calls).name = "web_search" THEN calls
    ELSE ToExecute(Tail(calls))

\* lines 375-385: the arguments of the call go to Toolhouse
ExecuteRequest(toolCall) ==
    [to |-> "toolhouse/tools/execute", bearer |-> "TOOLHOUSE_API_KEY",
     arguments |-> toolCall.id]

\* lines 407-420: model, messages, temperature, top_p and max_tokens only
FinalRequest(messages) ==
    [messages |-> messages, enableWebSearch |-> "absent", to |-> "groq",
     bearer |-> GroqApiKey(env), tools |-> FALSE]

\* line 341: [...requestBody.messages], taken as one entry
OriginalMessages == <<[role |-> "user"]>>

\* line 344: the message of the first completion
AssistantMessage(calls) == [role |-> "assistant", tool_calls |-> calls]

\* lines 398-403
ToolMessage(toolCall) ==
    [name |-> toolCall.name, role |-> "tool", tool_call_id |-> toolCall.id]

ProxyIdle ==
    /\ ppc = "off"
    /\ event = [body |-> [kind |-> "absent"], httpMethod |-> "OPTIONS"]
    /\ env = [QROQ_API_KEY |-> FALSE, GROQ_API_KEY |-> FALSE, API_KEY |-> FALSE,
              TOOLHOUSE_API_KEY |-> FALSE]
    /\ retries = 0
    /\ response = [kind |-> "undefined"]
    /\ attempts = <<>>
    /\ toolCalls = <<>>
    /\ messageHistory = <<>>
    /\ timers = {}
    /\ toolhouse = "none"
    /\ upstream = <<>>
    /\ result = [kind |-> "none"]

ProxyInvoked ==
    /\ ppc = "invoked"
    /\ event \in [body : Bodies, httpMethod : Methods]
    /\ env \in Environments
    /\ retries = 0
    /\ response = [kind |-> "undefined"]
    /\ attempts = <<>>
    /\ toolCalls = <<>>
    /\ messageHistory = <<>>
    /\ timers = {}
    /\ toolhouse = "none"
    /\ upstream = <<>>
    /\ result = [kind |-> "none"]

\* the invocation completes with r
Completes(r) ==
    /\ ppc' = "completed"
    /\ result' = r

\* the handler completes before any upstream call
Rejects(r) ==
    /\ Completes(r)
    /\ UNCHANGED <<retries, response, attempts, toolCalls, messageHistory, timers, upstream>>

\* lines 178-200: the catch of the handler
HandlerCatch(errorMessage) == Returned(500, errorMessage)

\* lines 445-462: the catch of handleToolhouseWebSearch
WebSearchCatch == Returned(500, "Toolhouse web search error")

\* lines 468-480: processApiResponse is entered and awaits response.text()
ProcessApiResponse ==
    /\ ppc' = "text"
    /\ UNCHANGED <<result, upstream>>

\* lines 207-235: retries = 3, the first pass of the loop up to its fetch
StartStandard ==
    /\ retries' = 3
    /\ ppc' = "fetch"
    /\ upstream' = Append(upstream, StandardRequest)
    /\ timers' = timers \cup {1}
    /\ UNCHANGED <<response, attempts, toolCalls, messageHistory, result>>

\* lines 265-280: handleToolhouseWebSearch up to the fetch of the tools
StartWebSearch ==
    /\ ppc' = "tools"
    /\ upstream' = Append(upstream, ToolsRequest)
    /\ UNCHANGED <<retries, response, attempts, toolCalls, messageHistory, timers, result>>

\* lines 5-176: the handler from its invocation to its first await or to its
\* return.  Line 10 parses the body for the log before anything is tested.
Invoke ==
    /\ ppc = "invoked"
    /\ IF event.body.kind = "invalidJson"
       THEN Rejects(Thrown("SyntaxError"))
       ELSE IF event.httpMethod = "OPTIONS"
       THEN Rejects(Returned(200, ""))
       ELSE IF event.httpMethod # "POST"
       THEN Rejects(Returned(405, "Method Not Allowed"))
       ELSE IF event.body.kind = "absent"
       THEN Rejects(Returned(400, "Request body is required"))
       ELSE IF event.body.kind = "invalidJson"
       THEN Rejects(Returned(400, "Invalid JSON in request body"))
       ELSE IF event.body.kind = "null"
       THEN Rejects(HandlerCatch("Cannot read properties of null (reading 'model')"))
       ELSE IF ~event.body.model
       THEN Rejects(Returned(400, "Model name is required"))
       ELSE IF event.body.messages # "present"
       THEN Rejects(Returned(400, "Messages array is required and must not be empty"))
       ELSE IF GroqApiKey(env) = ""
       THEN Rejects(Returned(500, "Groq API key not configured"))
       ELSE IF EnableWebSearch(event.body) /\ ~env.TOOLHOUSE_API_KEY
       THEN Rejects(Returned(500, "Toolhouse API key not configured"))
       ELSE IF EnableWebSearch(event.body)
       THEN StartWebSearch
       ELSE StartStandard
    /\ UNCHANGED <<event, toolhouse, env>>
    /\ UNCHANGED <<votingVars, sendVars, normVars>>

\* line 238: clearTimeout(timeoutId) for the timer of attempt n
ClearTimeout(n) == timers \ {n}

\* lines 237-248: the attempt returned a response; `again` tells whether the
\* loop goes round once more
AttemptSettles(status, again) ==
    /\ attempts' = Append(attempts, [kind |-> "response", status |-> status])
    /\ response' = [kind |-> "response", status |-> status]
    /\ IF again
       THEN /\ retries' = retries - 1
            /\ ppc' = "backoff"
            /\ UNCHANGED <<result, upstream>>
       ELSE /\ retries' = retries
            /\ ProcessApiResponse
    /\ timers' = ClearTimeout(Len(attempts) + 1)
    /\ UNCHANGED <<event, toolhouse, env, toolCalls, messageHistory>>
    /\ UNCHANGED <<votingVars, sendVars, normVars>>

\* the loop written to go round again after every response that is not ok
AttemptReturnsRetryingErrors ==
    /\ ppc = "fetch"
    /\ \E status \in UpstreamStatuses : AttemptSettles(status, ~Ok(status))

\* lines 225-248: the fetch of an attempt resolves; 502 is retried, any
\* other status leaves the loop
AttemptReturns ==
    /\ ppc = "fetch"
    /\ \E status \in UpstreamStatuses : AttemptSettles(status, status = 502)

\* lines 249-255: the catch of an attempt; the last failure is thrown to the
\* handler.  Nothing in the catch touches the timer of the attempt.
AttemptCaught(errorMessage, armed) ==
    /\ attempts' = Append(attempts, [kind |-> "threw"])
    /\ retries' = retries - 1
    /\ IF retries - 1 = 0
       THEN Completes(HandlerCatch(errorMessage))
       ELSE ppc' = "backoff" /\ result' = result
    /\ timers' = armed
    /\ UNCHANGED <<event, toolhouse, env, response, toolCalls, messageHistory, upstream>>
    /\ UNCHANGED <<votingVars, sendVars, normVars>>

\* lines 219, 225-235, 249-255: the fetch of an attempt rejects, of a network
\* error while its timer is armed, or of the abort when its timer fires
AttemptThrows ==
    /\ ppc = "fetch"
    /\ \/ AttemptCaught("fetch failed", timers)
       \/ AttemptCaught("The user aborted a request.", timers \ {Len(attempts) + 1})

\* line 219: the 60 seconds of a timer left armed by an earlier attempt are
\* over; abort() on the controller of a settled fetch does nothing
StaleTimerFires ==
    /\ \E t \in timers :
         /\ ppc = "fetch" => t # Len(attempts) + 1
         /\ timers' = timers \ {t}
    /\ UNCHANGED <<ppc, event, toolhouse, env, retries, response, attempts, toolCalls,
                   messageHistory, upstream, result>>
    /\ UNCHANGED <<votingVars, sendVars, normVars>>

\* lines 245, 254, 211-235, 259: the backoff timer fires; the loop sends the
\* next attempt while retries > 0 and is left otherwise
BackoffElapses ==
    /\ ppc = "backoff"
    /\ IF retries > 0
       THEN /\ ppc' = "fetch"
            /\ upstream' = Append(upstream, StandardRequest)
            /\ timers' = timers \cup {Len(attempts) + 1}
            /\ result' = result
       ELSE ProcessApiResponse /\ timers' = timers
    /\ UNCHANGED <<event, toolhouse, env, retries, response, attempts, toolCalls, messageHistory>>
    /\ UNCHANGED <<votingVars, sendVars, normVars>>

\* lines 480, 516-526: response.text() rejects
BodyReadFails ==
    /\ ppc = "text"
    /\ Completes(Returned(500, "Response Processing Error"))
    /\ UNCHANGED <<event, toolhouse, env, retries, response, attempts,
                   toolCalls, messageHistory, timers, upstream>>
    /\ UNCHANGED <<votingVars, sendVars, normVars>>

\* lines 483-497: the text is not JSON
BodyIsNotJson ==
    /\ ppc = "text"
    /\ Completes(Returned(500, "Invalid API Response"))
    /\ UNCHANGED <<event, toolhouse, env, retries, response, attempts,
                   toolCalls, messageHistory, timers, upstream>>
    /\ UNCHANGED <<votingVars, sendVars, normVars>>

\* lines 499-515: the text is JSON
BodyIsJson ==
    /\ ppc = "text"
    /\ Completes(IF Ok(response.status)
                 THEN Returned(200, "")
                 ELSE Returned(response.status, "API Error"))
    /\ UNCHANGED <<event, toolhouse, env, retries, response, attempts,
                   toolCalls, messageHistory, timers, upstream>>
    /\ UNCHANGED <<votingVars, sendVars, normVars>>

\* the standard request sent when the tools are not obtained
ToolsFailFallsBack ==
    /\ ppc = "tools"
    /\ toolhouse' \in {"rejected", "notOk", "notJson", "noWebSearchTool"}
    /\ StartStandard
    /\ UNCHANGED <<event, env>>
    /\ UNCHANGED <<votingVars, sendVars, normVars>>

\* lines 274-298: the tools are not obtained (the fetch rejects, the
\* response is not ok, its body is not the JSON expected, no web_search tool)
ToolsFail ==
    /\ ppc = "tools"
    /\ toolhouse' \in {"rejected", "notOk", "notJson", "noWebSearchTool"}
    /\ Completes(WebSearchCatch)
    /\ UNCHANGED <<event, env, retries, response, attempts,
                   toolCalls, messageHistory, timers, upstream>>
    /\ UNCHANGED <<votingVars, sendVars, normVars>>

\* lines 283-323: the web search tool is found and the first request is sent
ToolsFound ==
    /\ ppc = "tools"
    /\ toolhouse' = "ok"
    /\ ppc' = "first"
    /\ upstream' = Append(upstream, FirstRequest)
    /\ UNCHANGED <<event, env, retries, response, attempts,
                   toolCalls, messageHistory, timers, result>>
    /\ UNCHANGED <<votingVars, sendVars, normVars>>

\* lines 315, 329: the first fetch rejects, or response.json() does
FirstFails ==
    /\ ppc = "first"
    /\ Completes(WebSearchCatch)
    /\ UNCHANGED <<event, toolhouse, env, retries, response, attempts,
                   toolCalls, messageHistory, timers, upstream>>
    /\ UNCHANGED <<votingVars, sendVars, normVars>>

\* lines 325-327: the first response is not ok
FirstNotOk ==
    /\ ppc = "first"
    /\ \E status \in { s \in UpstreamStatuses : ~Ok(s) } :
         response' = [kind |-> "response", status |-> status]
    /\ ProcessApiResponse
    /\ UNCHANGED <<event, toolhouse, env, retries, attempts, toolCalls, messageHistory, timers>>
    /\ UNCHANGED <<votingVars, sendVars, normVars>>

\* lines 428-441: the completion asks for no tool call
FirstWithoutToolCalls ==
    /\ ppc = "first"
    /\ Completes(Returned(200, "search_info"))
    /\ UNCHANGED <<event, toolhouse, env, retries, response, attempts,
                   toolCalls, messageHistory, timers, upstream>>
    /\ UNCHANGED <<votingVars, sendVars, normVars>>

\* lines 404-420: the second request is sent
SendFinal ==
    /\ ppc' = "final"
    /\ upstream' = Append(upstream, FinalRequest(messageHistory'))

\* lines 346-385: the first web_search call of those left is executed
SendExecute ==
    /\ ppc' = "execute"
    /\ upstream' = Append(upstream, ExecuteRequest(Head(toolCalls')))

\* lines 347-420: the loop goes on to the next web_search call, or past the
\* last call to the second request
LoopOver(calls) ==
    /\ toolCalls' = ToExecute(calls)
    /\ IF toolCalls' = <<>> THEN SendFinal ELSE SendExecute

\* lines 332-385: the completion has tool calls
FirstWithToolCalls ==
    /\ ppc = "first"
    /\ \E calls \in ToolCallLists :
         /\ messageHistory' = OriginalMessages \o <<AssistantMessage(calls)>>
         /\ LoopOver(calls)
    /\ UNCHANGED <<event, toolhouse, env, retries, response, attempts, timers, result>>
    /\ UNCHANGED <<votingVars, sendVars, normVars>>

\* lines 375-393: the execution fails (the fetch rejects, the response is
\* not ok, the results are not a JSON array)
ExecuteFails ==
    /\ ppc = "execute"
    /\ toolhouse' \in {"rejected", "notOk", "notJson"}
    /\ Completes(WebSearchCatch)
    /\ UNCHANGED <<event, env, retries, response, attempts,
                   toolCalls, messageHistory, timers, upstream>>
    /\ UNCHANGED <<votingVars, sendVars, normVars>>

\* lines 393-420: the results are added; the next call is executed, or the
\* second request is sent
ExecuteReturns ==
    /\ ppc = "execute"
    /\ toolhouse' = "ok"
    /\ messageHistory' = Append(messageHistory, ToolMessage(Head(toolCalls)))
    /\ LoopOver(Tail(toolCalls))
    /\ UNCHANGED <<event, env, retries, response, attempts, timers, result>>
    /\ UNCHANGED <<votingVars, sendVars, normVars>>

\* line 407: the second fetch rejects
FinalFails ==
    /\ ppc = "final"
    /\ Completes(WebSearchCatch)
    /\ UNCHANGED <<event, toolhouse, env, retries, response, attempts,
                   toolCalls, messageHistory, timers, upstream>>
    /\ UNCHANGED <<votingVars, sendVars, normVars>>

\* lines 407-422: the second fetch resolves
FinalReturns ==
    /\ ppc = "final"
    /\ \E status \in UpstreamStatuses :
         response' = [kind |-> "response", status |-> status]
    /\ ProcessApiResponse
    /\ UNCHANGED <<event, toolhouse, env, retries, attempts, toolCalls, messageHistory, timers>>
    /\ UNCHANGED <<votingVars, sendVars, normVars>>

(***************************************************************************)
(* The proxy of part_001: one handler, one timer for the whole retry loop. *)
(***************************************************************************)
\* lines 99-108: JSON.stringify(requestBody) with the key GROQ_API_KEY
DraftRequest ==
    [enableWebSearch |-> event.body.enableWebSearch, to |-> "groq",
     bearer |-> "GROQ_API_KEY", tools |-> FALSE]

\* the failures of a fetch: error.name AbortError, or the error.code of a
\* network error, or anything else
DraftErrors == {"AbortError", "ENOTFOUND", "ECONNREFUSED", "ETIMEDOUT", "other"}

\* lines 156-182: the catch of the handler.  timeoutDuration is a const of
\* the block of the try (line 90), not in the scope of the catch: reading it
\* at line 163 throws a ReferenceError out of the handler
DraftCatch(error) ==
    IF error = "AbortError"
    THEN Thrown("ReferenceError")
    ELSE IF error \in {"ENOTFOUND", "ECONNREFUSED"}
    THEN Returned(502, "Could not connect to Groq API")
    ELSE IF error = "ETIMEDOUT"
    THEN Returned(504, "Connection to Groq API timed out")
    ELSE Returned(500, "Error processing request")

\* lines 86-108: the timer is armed and the first fetch is sent
DraftStart ==
    /\ retries' = 3
    /\ timers' = {1}
    /\ ppc' = "draftFetch"
    /\ upstream' = Append(upstream, DraftRequest)
    /\ UNCHANGED <<response, attempts, toolCalls, messageHistory, result>>

\* lines 9-108: the handler from its invocation to its first await or to its
\* return.  The destructuring of line 61 is outside every try.
DraftInvoke ==
    /\ ppc = "invoked"
    /\ IF event.httpMethod = "OPTIONS"
       THEN Rejects(Returned(200, ""))
       ELSE IF event.httpMethod # "POST"
       THEN Rejects(Returned(405, "Method Not Allowed"))
       ELSE IF ~env.GROQ_API_KEY
       THEN Rejects(Returned(500, "API key configuration error"))
       ELSE IF event.body.kind \in {"absent", "invalidJson"}
       THEN Rejects(Returned(400, "Invalid JSON in request body"))
       ELSE IF event.body.kind = "null"
       THEN Rejects(Thrown("TypeError"))
       ELSE IF ~event.body.model
       THEN Rejects(Returned(400, "Missing required parameter: model"))
       ELSE IF event.body.messages # "present"
       THEN Rejects(Returned(400, "Missing or invalid messages array"))
       ELSE DraftStart
    /\ UNCHANGED <<event, toolhouse, env>>
    /\ UNCHANGED <<votingVars, sendVars, normVars>>

\* lines 99-127: a fetch resolves; the loop is left and the timer cleared
DraftFetchResolves ==
    /\ ppc = "draftFetch"
    /\ timers # {}
    /\ \E status \in UpstreamStatuses :
         /\ attempts' = Append(attempts, [kind |-> "response", status |-> status])
         /\ response' = [kind |-> "response", status |-> status]
    /\ timers' = {}
    /\ ppc' = "draftJson"
    /\ UNCHANGED <<event, toolhouse, env, retries, toolCalls, messageHistory,
                   upstream, result>>
    /\ UNCHANGED <<votingVars, sendVars, normVars>>

\* lines 91-94, 99-123: a fetch rejects, of the abort of the timer (which
\* has fired by then) or of another error while the timer is armed; the
\* last failure and the abort are thrown to the catch of the handler
DraftFetchRejects ==
    /\ ppc = "draftFetch"
    /\ \E error \in DraftErrors :
         /\ timers = {} => error = "AbortError"
         /\ attempts' = Append(attempts, Thrown(error))
         /\ timers' = IF error = "AbortError" THEN {} ELSE timers
         /\ IF retries - 1 = 0 \/ error = "AbortError"
            THEN Completes(DraftCatch(error))
            ELSE ppc' = "draftBackoff" /\ result' = result
    /\ retries' = retries - 1
    /\ UNCHANGED <<event, toolhouse, env, response, toolCalls, messageHistory,
                   upstream>>
    /\ UNCHANGED <<votingVars, sendVars, normVars>>

\* lines 91-94: the 110 seconds are over while no fetch is pending
DraftTimerFires ==
    /\ ppc \in {"draftBackoff", "completed"}
    /\ timers # {}
    /\ timers' = {}
    /\ UNCHANGED <<ppc, event, toolhouse, env, retries, response, attempts,
                   toolCalls, messageHistory, upstream, result>>
    /\ UNCHANGED <<votingVars, sendVars, normVars>>

\* lines 97-108, 122: the backoff is over and the next fetch is sent
DraftBackoffElapses ==
    /\ ppc = "draftBackoff"
    /\ ppc' = "draftFetch"
    /\ upstream' = Append(upstream, DraftRequest)
    /\ UNCHANGED <<event, toolhouse, env, retries, response, attempts,
                   toolCalls, messageHistory, timers, result>>
    /\ UNCHANGED <<votingVars, sendVars, normVars>>

\* lines 135, 156-182: response.json() rejects
DraftJsonFails ==
    /\ ppc = "draftJson"
    /\ Completes(DraftCatch("other"))
    /\ UNCHANGED <<event, toolhouse, env, retries, response, attempts,
                   toolCalls, messageHistory, timers, upstream>>
    /\ UNCHANGED <<votingVars, sendVars, normVars>>

\* lines 135-155: the body is JSON
DraftJsonParsed ==
    /\ ppc = "draftJson"
    /\ Completes(IF Ok(response.status)
                 THEN Returned(200, "")
                 ELSE Returned(response.status, "Groq API Error"))
    /\ UNCHANGED <<event, toolhouse, env, retries, response, attempts,
                   toolCalls, messageHistory, timers, upstream>>
    /\ UNCHANGED <<votingVars, sendVars, normVars>>

(***************************************************************************)
(* The specifications.                                                     *)
(***************************************************************************)
\* the voting round: voting is active and the other settings stay as they are
Init ==
    /\ \E n \in 1..MaxPaths : VotingIdle(n)
    /\ SendIdle(TRUE, "cod", FALSE, "adaptive", "llama-3.3-70b-versatile", DefaultSampling)
    /\ NormIdle
    /\ ProxyIdle

Next ==
    \/ StartRound
    \/ FetchRejects
    \/ HttpError
    \/ BodyNotJson
    \/ ReplyWithoutContent
    \/ ReplyWithContent
    \/ PathSliderInput

Spec == Init /\ [][Next]_vars

\* sendMessage runs once it is called; nothing makes a pending fetch settle
FairSpec == Spec /\ WF_vars(StartRound)

\* sendMessage under every setting, the sampling settings changing while a
\* request is pending
SendInit ==
    /\ \E n \in 1..MaxSendPaths : VotingIdle(n)
    /\ \E enabled \in BOOLEAN, method \in ReasoningMethods, e \in EnhancementSettings,
          model \in ModelNames, sampling \in Samplings :
         SendIdle(enabled, method, e[1], e[2], model, sampling)
    /\ NormIdle
    /\ ProxyIdle

SendNext ==
    \/ SendWithoutModel
    \/ StartRound
    \/ FetchRejects
    \/ HttpError
    \/ BodyNotJson
    \/ ReplyWithoutContent
    \/ ReplyWithContent
    \/ StartSingle
    \/ SingleFetchRejects
    \/ SingleHttpError
    \/ SingleBodyNotJson
    \/ SingleReplyWithoutContent
    \/ SingleReplyWithContent
    \/ ChangeSampling

SendSpec == SendInit /\ [][SendNext]_vars

NormInit ==
    /\ VotingIdle(1)
    /\ SendIdle(FALSE, "cod", FALSE, "adaptive", "", DefaultSampling)
    /\ InitNorm
    /\ ProxyIdle

NormNext ==
    \/ NormalizeOnce
    \/ NormalizeTwice
    \/ NormalizeTail
    \/ NormalizeBare

NormSpec == NormInit /\ [][NormNext]_vars

ProxyInit ==
    /\ VotingIdle(1)
    /\ SendIdle(FALSE, "cod", FALSE, "adaptive", "", DefaultSampling)
    /\ NormIdle
    /\ ProxyInvoked

ProxyNext ==
    \/ Invoke
    \/ AttemptReturns
    \/ AttemptThrows
    \/ StaleTimerFires
    \/ BackoffElapses
    \/ BodyReadFails
    \/ BodyIsNotJson
    \/ BodyIsJson
    \/ ToolsFail
    \/ ToolsFound
    \/ FirstFails
    \/ FirstNotOk
    \/ FirstWithoutToolCalls
    \/ FirstWithToolCalls
    \/ ExecuteFails
    \/ ExecuteReturns
    \/ FinalFails
    \/ FinalReturns

ProxySpec == ProxyInit /\ [][ProxyNext]_vars

\* the handler runs once it is invoked; every fetch of the retry loop
\* settles, by its response, its failure or the abort of its 60-second
\* timer, and every backoff timer fires
ProxyFairSpec ==
    /\ ProxySpec
    /\ WF_vars(Invoke)
    /\ WF_vars(AttemptReturns \/ AttemptThrows)
    /\ WF_vars(BackoffElapses)

\* the proxy of part_001
DraftNext ==
    \/ DraftInvoke
    \/ DraftFetchResolves
    \/ DraftFetchRejects
    \/ DraftTimerFires
    \/ DraftBackoffElapses
    \/ DraftJsonFails
    \/ DraftJsonParsed

DraftSpec == ProxyInit /\ [][DraftNext]_vars

(***************************************************************************)
(* The claims.                                                             *)
(***************************************************************************)
IsFailure(o) == o.kind \in {"networkError", "httpError", "malformedJson", "noContent"}

RECURSIVE SumCounts(_)
SumCounts(obj) == IF obj = <<>> THEN 0 ELSE Head(obj).count + SumCounts(Tail(obj))

\* the settled paths whose reply had an answer to count
Voters(outs) ==
    { k \in DOMAIN outs :
        /\ outs[k].kind = "content"
        /\ FinalAnswer(Trim(outs[k].reply)) # <<>> }

\* C1: the requests of a round are sent in path order, the request for path
\* k only after the request for path k-1 has settled, and never are two
\* requests of the round in flight.
C1_OnePathInFlight ==
    /\ Cardinality(inFlight) <= 1
    /\ \A k \in DOMAIN requests : requests[k] = k - 1
    /\ Len(requests) <= Len(outcomes) + 1

C1_Witness ==
    /\ pc = "await"
    /\ requests = <<0, 1>>
    /\ inFlight = {1}
    /\ Len(outcomes) = 1
    /\ IsFailure(outcomes[1])

\* C2: a path that fails (network error, non-2xx status, malformed JSON, no
\* content) adds no response and no vote, the error does not reach the
\* outer handler, and every later path index is still dispatched.
C2_PathFailureContained ==
    /\ message.kind # "scError"
    /\ Len(responses) = Cardinality({ k \in DOMAIN outcomes : outcomes[k].kind = "content" })
    /\ SumCounts(answers) = Cardinality(Voters(outcomes))
    /\ (pc = "await" => Len(requests) = Len(outcomes) + 1)
    /\ (pc = "done" => Len(requests) >= paths /\ Len(outcomes) = Len(requests))

C2_Witness ==
    /\ pc = "done"
    /\ paths = 3
    /\ outcomes[1].kind = "httpError"
    /\ outcomes[2].kind = "content"
    /\ outcomes[3].kind = "networkError"
    /\ message.kind = "winner"
    /\ highestCount = 1

\* the key that was voted for first among the keys with the highest count
FirstSeenWinner(obj) ==
    LET top == { k \in DOMAIN obj : \A j \in DOMAIN obj : obj[j].count <= obj[k].count }
    IN  obj[CHOOSE k \in top : \A j \in top : k <= j].key

\* C3: when several keys reach the highest count, the winning key is the one
\* that was voted for first, numeric keys such as "8" and "9" included.
C3_TieGoesToFirstSeen ==
    (pc = "done" /\ answers # <<>>) => mostCommonAnswer = FirstSeenWinner(answers)

\* the choice C4 describes: the first response whose extracted answer includes
\* the key, else the first response
PickBestResponseByAnswer(resp, key) ==
    LET hits == { k \in DOMAIN resp : Includes(FinalAnswer(resp[k]), key) }
        found == IF hits = {} THEN <<>>
                 ELSE resp[CHOOSE k \in hits : \A j \in hits : k <= j]
    IN  IF found = <<>> /\ Len(resp) > 0 THEN resp[1] ELSE found

\* C4: the completion shown is the first collected completion whose
\* extracted answer contains the winning key, and the first collected
\* completion only when none does.
C4_ShownMatchesByExtractedAnswer ==
    (pc = "done" /\ message.kind = "winner")
        => message.content = PickBestResponseByAnswer(responses, mostCommonAnswer)

\* C5: when some completion voted for the winning key, the completion shown
\* is one whose own extracted answer normalizes to the winning key.
C5_ShownVotedForWinner ==
    (pc = "done" /\ message.kind = "winner" /\ highestCount > 0)
        => /\ FinalAnswer(message.content) # <<>>
           /\ normalizeAnswer(FinalAnswer(message.content)) = mostCommonAnswer

\* C6: when no path yields a completion the round ends with the "No valid
\* responses received" message, thinking and answer null, all word counts 0,
\* and neither a winner nor a self-consistency summary is posted.
C6_NoCompletionGivesNoValid ==
    (pc = "done" /\ responses = <<>>)
        => /\ message.kind = "noValid"
           /\ message.content = "No valid responses received. Check model name and API key."
           /\ message.thinking = "null"
           /\ message.answer = "null"
           /\ message.wordCount = 0
           /\ message.thinkingWordCount = 0
           /\ message.answerWordCount = 0
           /\ message.isPlaceholder = FALSE
           /\ "selfConsistencyResults" \notin DOMAIN message
           /\ "summary" \notin DOMAIN message

C6_Witness ==
    /\ pc = "done"
    /\ paths >= 2
    /\ responses = <<>>
    /\ Len(outcomes) = paths
    /\ \E k \in DOMAIN outcomes : outcomes[k].kind = "noContent"
    /\ \E k \in DOMAIN outcomes : outcomes[k].kind = "networkError"

\* C7: when at least one path returned a completion with content (here:
\* content that is not blank), the round ends with a winning completion and
\* its summary, not with a failure message.
C7_OneCompletionGivesWinner ==
    (pc = "done" /\ \E k \in DOMAIN outcomes :
                        /\ outcomes[k].kind = "content"
                        /\ Trim(outcomes[k].reply) # <<>>)
        => message.kind = "winner"

\* C8: a call that never responds is cancelled by its own deadline, so a
\* round that waits for a path always goes on and resolves.
C8_WaitingRoundResolves == (pc = "await") ~> (pc = "done")

\* C9: an answer that starts with a filler phrase, in any letter case,
\* followed by the answer proper gets the voting key of the answer proper.
C9_FillerPhraseIsStripped ==
    (normPc = "tail") => normOnce = normTail

\* a "$" or "%" with a word character on both sides
SymbolBetweenWords(s) ==
    \E k \in DOMAIN s : s[k] \in {"$", "%"} /\ WordAt(s, k - 1) /\ WordAt(s, k + 1)

\* C10 as claimed: normalizeAnswer(normalizeAnswer(x)) = normalizeAnswer(x)
\* for every string x.
C10_IdempotentOnEveryString ==
    (normPc \in {"twice", "tail"}) => normTwice = normOnce

\* C10 as amended: normalizeAnswer(normalizeAnswer(x)) = normalizeAnswer(x)
\* for every string x in which no "$" or "%" stands between two word
\* characters.
C10_IdempotentWithoutJoiningSymbol ==
    (normPc \in {"twice", "tail"} /\ ~SymbolBetweenWords(normInput))
        => normTwice = normOnce

C10_Witness ==
    /\ normPc = "twice"
    /\ ~SymbolBetweenWords(normInput)
    /\ PrefixMatchLen(normInput) > 0
    /\ normOnce # <<>>
    /\ normOnce # normInput
    /\ normTwice = normOnce

\* C11: normalizeAnswer removes a unit token of its list wherever it occurs,
\* so that the number written with a unit ("$8", "8kg", "8 kg") gets the
\* voting key of the number alone.
C11_UnitTokenRemovedAnywhere ==
    (normPc = "bare") => normOnce = normBare

\* p is count / total * 100 rounded to the nearest whole number, a half
\* rounded up
IsRoundedPercentage(p, count, total) ==
    /\ 2 * total * p <= 200 * count + total
    /\ 200 * count + total < 2 * total * (p + 1)

\* C12: the agreement percentage shown is round(winningCount / paths * 100),
\* paths being the number of paths requested for the round, not the number
\* that succeeded.
C12_PercentageOfRequestedPaths ==
    (pc = "done" /\ message.kind = "winner")
        => IsRoundedPercentage(message.summary.percent, highestCount, started.paths)

\* C13: the request for path index i carries the temperature
\* TEMPERATURE + 0.2 + i*0.05 of the setting as it was when the round
\* started, for every i below paths, and the other payload fields are the
\* same for all paths.
C13_TemperatureRamp ==
    (pc \in {"await", "done"})
        => /\ \A k \in DOMAIN payloads :
                /\ payloads[k].temperature = started.TEMPERATURE + 20 + (5 * requests[k])
                /\ payloads[k].model = started.MODEL_NAME
                /\ payloads[k].top_p = started.TOP_P
                /\ DOMAIN payloads[k] = DOMAIN payloads[1]
           /\ Len(payloads) = Len(requests)
           /\ (pc = "done" => \A idx \in 0..(paths - 1) : \E k \in DOMAIN requests : requests[k] = idx)

C13_Witness ==
    /\ pc = "done"
    /\ Len(payloads) = 2
    /\ TEMPERATURE # started.TEMPERATURE
    /\ payloads[1].temperature = started.TEMPERATURE + 20
    /\ payloads[2].temperature = started.TEMPERATURE + 25

\* the answer extracted from each reply, and the key it is counted under
AnswerOfReply == [r \in Replies |-> FinalAnswer(Trim(r))]

KeyOfReply == [r \in Replies |-> normalizeAnswer(AnswerOfReply[r])]

KeyOf(o) == KeyOfReply[o.reply]

IsContent(o) == o.kind = "content"

\* the settled paths whose reply has an answer that is not empty
HasAnswer(o) == IsContent(o) /\ AnswerOfReply[o.reply] # <<>>

\* C14: a completion adds a vote only if its extracted answer is not empty,
\* the key it increments is the normalized form of the answer and not the
\* raw text, and a completion without an answer changes no tally entry but
\* is kept among the collected responses.
C14_VoteUnderNormalizedKey ==
    LET collected == SelectSeq(outcomes, IsContent)
        voters == { k \in DOMAIN outcomes : HasAnswer(outcomes[k]) }
    IN  /\ \A e \in Range(answers) :
             /\ e.count >= 1
             /\ e.count = Cardinality({ k \in voters : KeyOf(outcomes[k]) = e.key })
        /\ \A k \in voters : HasKey(answers, KeyOf(outcomes[k]))
        /\ responses = [j \in 1..Len(collected) |-> Trim(collected[j].reply)]

C14_Witness ==
    /\ pc = "done"
    /\ Len(outcomes) = 2
    /\ outcomes[1] = [kind |-> "content", reply |-> <<"x"," ","#","#","#","#">>]
    /\ outcomes[2] = [kind |-> "content", reply |-> <<"Y","e","s">>]
    /\ Len(responses) = 2
    /\ answers = <<[key |-> <<"y","e","s">>, count |-> 1]>>

\* C15: the voting layer does not retry: one request per path index, a
\* failed path is not sent again, and the requests of a round are as many
\* as the paths requested.
C15_OneRequestPerPath ==
    /\ \A j, k \in DOMAIN requests : requests[j] = requests[k] => j = k
    /\ (pc = "done" => Len(requests) = started.paths)

\* thinking and answer are null and the word counts are 0
NullFields(m) ==
    /\ m.thinking = "null"
    /\ m.answer = "null"
    /\ m.wordCount = 0
    /\ m.thinkingWordCount = 0
    /\ m.answerWordCount = 0

\* C16: without voting, a failed completion call (network error, status
\* that is not 2xx, malformed JSON) replaces the placeholder with a message
\* that begins "Error communicating with API:", a reply without content
\* replaces it with "No valid response received", and in both cases
\* thinking and answer are null and the word counts are 0.
C16_SingleShotFailureMessage ==
    (pc = "doneSingle" /\ IsFailure(outcomes[Len(outcomes)]))
        => /\ message.isPlaceholder = FALSE
           /\ NullFields(message)
           /\ IF outcomes[Len(outcomes)].kind = "noContent"
              THEN message.content = "No valid response received. Check model name and API key."
              ELSE message.content[1] = "Error communicating with API: "

C16_Witness ==
    /\ pc = "doneSingle"
    /\ outcomes = <<[kind |-> "httpError"]>>
    /\ message.content = <<"Error communicating with API: ", "HTTP error! Status: 500">>

C19_HandlerAlwaysResponds ==
    (ppc = "completed")
        => /\ result.kind = "response"
           /\ result.statusCode \in Nat

\* an attempt after which the loop goes round again
Retried(o) == IF o.kind = "threw" THEN TRUE ELSE o.status = 502

InRetryLoop == ppc \in {"fetch", "backoff"}

AttemptsAreBounded ==
    /\ Len(attempts) <= 3
    /\ \A k \in 1..(Len(attempts) - 1) : Retried(attempts[k])
    /\ (attempts # <<>> /\ ~Retried(attempts[Len(attempts)]) => ~InRetryLoop)
    /\ (InRetryLoop \/ attempts # <<>>
            => Len(upstream) = Len(attempts) + (IF ppc = "fetch" THEN 1 ELSE 0))

\* C20: handleStandardGroqRequest makes at most 3 upstream attempts, a
\* further attempt only after an attempt returned 502 or threw; any other
\* status ends the loop at once, and the loop always terminates.
C20_AtMostThreeAttempts ==
    /\ []AttemptsAreBounded
    /\ (InRetryLoop ~> ~InRetryLoop)

C20_Witness ==
    /\ ppc = "completed"
    /\ Len(attempts) = 3
    /\ attempts[1].kind = "threw"
    /\ attempts[2] = [kind |-> "response", status |-> 502]
    /\ attempts[3] = [kind |-> "response", status |-> 200]
    /\ Len(upstream) = 3
    /\ result.statusCode = 200

\* the retry loop was left with its attempts used up
Exhausted ==
    /\ Len(attempts) = 3
    /\ \A k \in DOMAIN attempts : Retried(attempts[k])

\* C21: when the attempts are used up the handler reports the last outcome:
\* status 502 if the last attempt returned 502, and status 500 with the
\* message of the thrown error if the last attempt threw.
C21_LastOutcomeReported ==
    (ppc = "completed" /\ Exhausted)
        => IF attempts[3].kind = "threw"
           THEN result = Returned(500, "fetch failed")
           ELSE result.kind = "response" /\ result.statusCode = 502

\* the body is JSON that carries no model
WithoutModel(b) == IF b.kind = "object" THEN ~b.model ELSE b.kind = "null"

\* the body is JSON with a model and without a messages array that has an
\* element
WithoutMessages(b) == b.kind = "object" /\ b.messages # "present"

\* the invocation was answered with statusCode and nothing was sent upstream
AnsweredAtOnce(statusCode) ==
    /\ result.kind = "response"
    /\ result.statusCode = statusCode
    /\ upstream = <<>>

\* C22: the handler answers a request it rejects without an upstream call,
\* in this order: OPTIONS 200 with an empty body, another method than POST
\* 405, no body 400, a body that is not JSON 400 "Invalid JSON in request
\* body", no model 400, no messages array with an element 400, no API key
\* 500.
C22_RejectionPrecedence ==
    (ppc = "completed")
        => IF event.httpMethod = "OPTIONS"
           THEN AnsweredAtOnce(200) /\ result.text = ""
           ELSE IF event.httpMethod # "POST"
           THEN AnsweredAtOnce(405)
           ELSE IF event.body.kind = "absent"
           THEN AnsweredAtOnce(400)
           ELSE IF event.body.kind = "invalidJson"
           THEN AnsweredAtOnce(400) /\ result.text = "Invalid JSON in request body"
           ELSE IF WithoutModel(event.body)
           THEN AnsweredAtOnce(400)
           ELSE IF WithoutMessages(event.body)
           THEN AnsweredAtOnce(400)
           ELSE IF GroqApiKey(env) = ""
           THEN AnsweredAtOnce(500)
           ELSE TRUE

\* the name of the key the claim says is used: the first one set
FirstKeySet ==
    IF env.QROQ_API_KEY THEN "QROQ_API_KEY"
    ELSE IF env.GROQ_API_KEY THEN "GROQ_API_KEY"
    ELSE IF env.API_KEY THEN "API_KEY"
    ELSE "none"

ToGroq(k) == upstream[k].to = "groq"

\* C23: a request goes to the Groq endpoint only if the method is POST, an
\* API key is set, the first key set is the bearer token, and the body has
\* a model and a messages array with an element.
C23_GroqOnlyForAcceptedRequest ==
    \A k \in DOMAIN upstream :
        ToGroq(k)
            => /\ event.httpMethod = "POST"
               /\ FirstKeySet # "none"
               /\ upstream[k].bearer = FirstKeySet
               /\ event.body.kind = "object"
               /\ event.body.model
               /\ event.body.messages = "present"

C23_Witness ==
    /\ upstream # <<>>
    /\ ToGroq(1)
    /\ ~env.QROQ_API_KEY
    /\ env.GROQ_API_KEY
    /\ env.API_KEY
    /\ upstream[1].bearer = "GROQ_API_KEY"

\* the request passed the tests of the method, the body and the API key
Accepted ==
    /\ event.httpMethod = "POST"
    /\ event.body.kind = "object"
    /\ event.body.model
    /\ event.body.messages = "present"
    /\ FirstKeySet # "none"

ToToolhouse(k) == upstream[k].to \in {"toolhouse/tools", "toolhouse/tools/execute"}

\* enableWebSearch is the boolean true
StrictlyTrue == event.body.kind = "object" /\ event.body.enableWebSearch = "true"

FirstToolCalls == IF Len(messageHistory) >= 2 THEN messageHistory[2].tool_calls ELSE <<>>

WebSearchCalls == SelectSeq(FirstToolCalls, LAMBDA c : c.name = "web_search")

OnWebSearchPath == upstream # <<>> /\ upstream[1].to = "toolhouse/tools"

\* the k-th upstream call of the web-search path is the one its place asks for
InFixedOrder(k) ==
    IF k = 1 THEN upstream[k] = ToolsRequest
    ELSE IF k = 2 THEN upstream[k] = FirstRequest
    ELSE IF k <= 2 + Len(WebSearchCalls)
    THEN /\ upstream[k].to = "toolhouse/tools/execute"
         /\ upstream[k].arguments = WebSearchCalls[k - 2].id
    ELSE /\ k = 3 + Len(WebSearchCalls)
         /\ FirstToolCalls # <<>>
         /\ upstream[k].to = "groq"
         /\ ~upstream[k].tools

\* C25: on the web-search path the upstream calls are, in this order, the
\* Toolhouse tool list, the first Groq call, one Toolhouse execution for each
\* web_search tool call in the order of tool_calls, and the second Groq call;
\* the second Groq call is made only when the first completion had tool calls
\* and after every execution, and at most two Groq calls are made
C25_WebSearchCallOrder ==
    OnWebSearchPath =>
        /\ \A k \in 1..Len(upstream) : InFixedOrder(k)
        /\ Cardinality({ k \in 1..Len(upstream) : upstream[k].to = "groq" }) <= 2

\* two web_search calls were executed and the second Groq call was answered
C25_Witness ==
    /\ ppc = "completed"
    /\ Len(WebSearchCalls) = 2
    /\ Len(upstream) = 5
    /\ upstream[5].to = "groq"

\* the messages of history after the original ones and the assistant message
ToolResults(history) == SubSeq(history, Len(OriginalMessages) + 2, Len(history))

\* history holds one tool-result message for every tool call of its
\* assistant message, in the order of the calls and under their ids
AnswersEveryCall(history) ==
    LET calls == history[Len(OriginalMessages) + 1].tool_calls
        results == ToolResults(history)
    IN  /\ Len(results) = Len(calls)
        /\ \A k \in 1..Len(calls) :
              /\ results[k].role = "tool"
              /\ results[k].tool_call_id = calls[k].id

\* C26: the messages of the second Groq call are the original messages, the
\* assistant message with the tool calls, and then exactly one tool-result
\* message for every tool call of that message, in the same order and with
\* the id of the call
C26_OneResultPerToolCall ==
    \A k \in 1..Len(upstream) :
        (OnWebSearchPath /\ k > 2 /\ upstream[k].to = "groq") =>
            LET history == upstream[k].messages
            IN  /\ Len(history) >= Len(OriginalMessages) + 1
                /\ SubSeq(history, 1, Len(OriginalMessages)) = OriginalMessages
                /\ history[Len(OriginalMessages) + 1].role = "assistant"
                /\ history[Len(OriginalMessages) + 1].tool_calls = FirstToolCalls
                /\ AnswersEveryCall(history)

ToolhouseFailed == toolhouse \notin {"none", "ok"}

\* C27: once a call to Toolhouse has failed (the tool list or an execution
\* is not ok, the list has no web_search tool) the handler has responded with
\* status 500 and the error "Toolhouse web search error", and the failed call
\* is the last upstream call: no Groq call follows it, on the web-search path
\* or on the standard path
C27_ToolhouseFailureIs500 ==
    ToolhouseFailed =>
        /\ ppc = "completed"
        /\ result = Returned(500, "Toolhouse web search error")
        /\ upstream[Len(upstream)].to \in {"toolhouse/tools", "toolhouse/tools/execute"}
        /\ \A k \in 1..Len(upstream) : upstream[k] # StandardRequest

\* the second of two executions was not ok, after the first Groq call
C27_Witness ==
    /\ toolhouse = "notOk"
    /\ Len(upstream) = 4
    /\ upstream[4].to = "toolhouse/tools/execute"
    /\ result.statusCode = 500

\* C28: no request sent to the Groq endpoint has an enableWebSearch field in
\* its body, on the standard path and on the web-search path
C28_FlagNeverForwarded ==
    \A k \in 1..Len(upstream) :
        upstream[k].to = "groq" => upstream[k].enableWebSearch = "absent"

\* C29: a timeout timer is armed only for the attempt whose fetch is pending:
\* the timer of an attempt that returned a response or threw has been
\* cleared, and no timer is armed once the handler has returned
C29_TimersClearedWithAttempt ==
    /\ \A t \in timers : ppc = "fetch" /\ t = Len(attempts) + 1
    /\ ppc = "completed" => timers = {}

\* the failure of the last fetch of part_001, "" when it did not fail
LastError ==
    IF attempts # <<>> /\ attempts[Len(attempts)].kind = "threw"
    THEN attempts[Len(attempts)].error
    ELSE ""

\* C30: in part_001 a fetch aborted by the 110-second timer is not sent
\* again and the handler responds 504 "Request timed out after 110 seconds";
\* when the last fetch failed with ENOTFOUND or ECONNREFUSED the response is
\* 502, with ETIMEDOUT 504, with any other error 500
C30_DraftErrorStatuses ==
    /\ LastError = "AbortError" =>
          /\ ppc = "completed"
          /\ Len(upstream) = Len(attempts)
          /\ result = Returned(504, "Request timed out after 110 seconds")
    /\ (ppc = "completed" /\ LastError # "") =>
          /\ result.kind = "response"
          /\ result.statusCode =
                IF LastError \in {"ENOTFOUND", "ECONNREFUSED"} THEN 502
                ELSE IF LastError \in {"ETIMEDOUT", "AbortError"} THEN 504
                ELSE 500

\* the votes counted are no more than the replies collected, and these no
\* more than the paths a request was sent for
TallyWithinAttempts ==
    /\ SumCounts(answers) <= Len(responses)
    /\ Len(responses) <= Len(requests)

\* the agreement a finished round shows is within the paths it was asked for
AgreementWithinRequested ==
    (pc = "done" /\ message.kind = "winner") =>
        LET results == message.selfConsistencyResults
        IN  /\ results.agreementCount <= started.paths
            /\ 0 <= results.agreement[1]
            /\ results.agreement[1] <= 100 * results.agreement[2]
            /\ message.summary.percent \in 0..100

\* C31: at every point of a voting round the sum of the tally counts is at
\* most the number of responses collected, which is at most the number of
\* paths attempted so far; so agreementCount is at most the number of paths
\* requested and the agreement percentage lies between 0 and 100
C31_TallyAndAgreementBounds ==
    /\ TallyWithinAttempts
    /\ AgreementWithinRequested
====
